---- MODULE Spec2Model ----
(***************************************************************************)
(* Model of medresearch_agent/utils/session_manager.py (SessionManager and *)
(* ResearchSession) with the callers in api/main.py, and of                *)
(* medresearch_agent/utils/a2a_protocol.py (ResearchCoordinationProtocol). *)
(*                                                                         *)
(* The specifications share the state:                                     *)
(*   Spec       every SessionManager method is one atomic call             *)
(*   SpecResume Spec, recording the checkpoint of each successful pause    *)
(*   SpecStore  Spec over several sessions in one store                    *)
(*   SpecConc   two threads call into one shared SessionManager; the guard *)
(*              check and the write of pause_session / resume_session are  *)
(*              separate steps                                             *)
(*   SpecCrash  save_session is taken step by step (truncate, write,       *)
(*              close) and the process may crash between the steps         *)
(*   SpecDelete create, pause, complete, save_checkpoint and delete over   *)
(*              several sessions                                           *)
(*   SpecBus    one consumer task on the message bus, with the loop clock  *)
(*   SpecBusLive  SpecBus under the event loop's fair scheduling           *)
(*   SpecBusConc  two consumer tasks on the message bus                    *)
(*   SpecStats  messages of every type are sent and counted                *)
(*   SpecPair   two sessions in one store, created from the same request   *)
(*   SpecFail   save_session step by step, where the write can fail         *)
(*   SpecSend   send_message statement by statement beside one consumer    *)
(***************************************************************************)
EXTENDS Integers, Sequences, FiniteSets, TLC

VARIABLES
    sessions,   \* SessionManager.sessions: dict session_id -> ResearchSession
    disk,       \* storage_dir: dict session_id -> content of <session_id>.json
    clock,      \* the latest value datetime.now() has returned
    last,       \* the latest call: method, arguments, return value
    checkpoints,\* storage_dir: dict session_id -> content of <session_id>.checkpoint
    pauseSnap,  \* per session: the checkpoint when pause_session last returned True
    pc,         \* SpecConc: per thread, the position inside its call
    call,       \* SpecConc: per thread, the call in progress and its return value
    saving,     \* SpecCrash: the save_session in progress
    crash,      \* SpecCrash: what the durable store held around an interrupted save
    messages,      \* the A2AMessage objects by message_id; queue and log refer to them
    message_queue, \* ResearchCoordinationProtocol.message_queue: the ids waiting
    message_log,   \* ResearchCoordinationProtocol.message_log: the ids sent
    tasks,         \* per consumer task: the bus call it is suspended in
    loop_time,     \* asyncio.get_event_loop().time()
    delivered      \* every item taken from message_queue, in the order taken

storeVars == <<sessions, disk, checkpoints, clock>>
histVars  == <<last, pauseSnap>>
concVars  == <<pc, call>>
crashVars == <<saving, crash>>
busVars   == <<messages, message_queue, message_log, tasks, loop_time, delivered>>
sessVars  == <<sessions, disk, checkpoints, clock, pauseSnap, pc, call, saving, crash>>
vars == <<sessions, disk, checkpoints, clock, last, pauseSnap, pc, call, saving, crash,
          messages, message_queue, message_log, tasks, loop_time, delivered>>

----------------------------------------------------------------------------
(* Bounds and input sets *)

MaxClock == 1
MaxCount == 1

SessionIds == {"s1", "s2"}
OneSession == {"s1"}
Requests   == {[query |-> "hypertension", config |-> "None"],
                [query |-> "diabetes research", config |-> "max_papers"]}
Stages     == {"searching"}
Errors     == {"boom"}
Blobs      == {"blobA"}
Counts     == 0..MaxCount
EdgeCounts == {0, MaxCount}
Threads    == {"t1", "t2"}
Tasks      == {"c1", "c2"}
OneTask    == {"c1"}

\* Optional[T]: {} is None, {v} is a supplied value
Opt(S) == {{}} \cup {{x} : x \in S}
Val(o) == CHOOSE x \in o : TRUE

\* datetime.now(): never earlier than the value returned before
Now(t) == {u \in t..(t + 1) : u <= MaxClock}

----------------------------------------------------------------------------
(* Python dict helpers *)

Put(d, k, v) == [x \in (DOMAIN d) \cup {k} |-> IF x = k THEN v ELSE d[x]]
Del(d, k)    == [x \in (DOMAIN d) \ {k} |-> d[x]]
EmptyDict    == <<>>

----------------------------------------------------------------------------
(* ResearchSession and its serialisation *)

\* ResearchSession(...) as create_session builds it; __post_init__ turns the
\* absent analyzed_papers into the empty list
ResearchSession(session_id, query, status, stage, created_at, updated_at, config) ==
    [session_id          |-> session_id,
     query               |-> query,
     status              |-> status,
     stage               |-> stage,
     created_at          |-> created_at,
     updated_at          |-> updated_at,
     papers_found        |-> 0,
     papers_analyzed     |-> 0,
     current_paper_index |-> 0,
     analyzed_papers     |-> <<>>,
     report              |-> "None",
     config              |-> config]

\* asdict(self): every field, by name
to_dict(session) == session

\* cls(**data)
from_dict(data) == data

\* json.dump into a file opened with 'w': the complete document
json_dump(data) == [state |-> "complete", doc |-> data]

\* json.load: the document, or nothing when the text is no complete document
\* (an empty or cut-off file raises, load_session catches it)
json_load(file) == IF file.state = "complete" THEN {file.doc} ELSE {}

\* config or {}
ConfigOr(config) == IF config \in {"None", "{}"} THEN "{}" ELSE config

\* f"failed: {error}"
FailedStage(error) == "failed: " \o error

----------------------------------------------------------------------------
(* SessionManager, method by method.  A method that returns a session or    *)
(* None is modelled with Opt.  The *_obj operators are the part of a method *)
(* before its call of save_session: the session object as mutated in place, *)
(* or {} when the method returns early.                                     *)

get_session(session_id) ==
    IF session_id \in DOMAIN sessions THEN {sessions[session_id]} ELSE {}

\* load_session: the file is absent, unreadable, or holds a session
load_session(session_id) ==
    IF session_id \notin DOMAIN disk
    THEN {}
    ELSE {from_dict(d) : d \in json_load(disk[session_id])}

\* _load_sessions on a fresh manager: every *.json that load_session can read
_load_sessions ==
    LET loaded == {id \in DOMAIN disk : load_session(id) # {}}
    IN  [id \in loaded |-> Val(load_session(id))]

\* save_session(session): the object gets a new updated_at, is written to its
\* file and is put into the cache
\* save_session writing the file before it refreshes updated_at
save_session_stale_write(S, D, session, now) ==
    LET s2 == [session EXCEPT !.updated_at = now]
    IN  [sessions |-> Put(S, s2.session_id, s2),
         disk     |-> Put(D, s2.session_id, json_dump(to_dict(session)))]

save_session(S, D, session, now) ==
    LET s2 == [session EXCEPT !.updated_at = now]
    IN  [sessions |-> Put(S, s2.session_id, s2),
         disk     |-> Put(D, s2.session_id, json_dump(to_dict(s2)))]

\* create_session building the session in the stage the worker sets next
create_session_obj_stage_running(session_id, query, config, now) ==
    ResearchSession(session_id, query, "running", "running", now, now,
                    ConfigOr(config))

create_session_obj(session_id, query, config, now) ==
    ResearchSession(session_id, query, "running", "initializing", now, now,
                    ConfigOr(config))

\* pause_session guarding only against a missing session
pause_session_obj_no_status_guard(session_id, now) ==
    {[s EXCEPT !.status = "paused", !.updated_at = now] :
        s \in get_session(session_id)}

pause_session_obj(session_id, now) ==
    LET session == get_session(session_id)
    IN  IF session = {} \/ Val(session).status # "running"
        THEN {}
        ELSE {[Val(session) EXCEPT !.status = "paused", !.updated_at = now]}

\* resume_session guarding only against a missing session
resume_session_obj_no_status_guard(session_id, now) ==
    {[s EXCEPT !.status = "running", !.updated_at = now] :
        s \in get_session(session_id)}

resume_session_obj(session_id, now) ==
    LET session == get_session(session_id)
    IN  IF session = {} \/ Val(session).status # "paused"
        THEN {}
        ELSE {[Val(session) EXCEPT !.status = "running", !.updated_at = now]}

\* complete_session creating the session it does not find
complete_session_obj_create_missing(session_id) ==
    IF get_session(session_id) = {}
    THEN {ResearchSession(session_id, "", "completed", "completed", 0, 0,
                          "{}")}
    ELSE {[s EXCEPT !.status = "completed", !.stage = "completed"] :
            s \in get_session(session_id)}

complete_session_obj(session_id) ==
    {[s EXCEPT !.status = "completed", !.stage = "completed"] :
        s \in get_session(session_id)}

fail_session_obj(session_id, error) ==
    {[s EXCEPT !.status = "failed", !.stage = FailedStage(error)] :
        s \in get_session(session_id)}

\* update_progress writing "papers_found or 0" instead of testing for None
update_progress_obj_found_or_zero(session_id, stage, papers_found, papers_analyzed, current_paper_index) ==
    {[s EXCEPT
        !.stage = IF stage # {} THEN Val(stage) ELSE @,
        !.papers_found = IF papers_found # {} THEN Val(papers_found) ELSE 0,
        !.papers_analyzed =
            IF papers_analyzed # {} THEN Val(papers_analyzed) ELSE @,
        !.current_paper_index =
            IF current_paper_index # {} THEN Val(current_paper_index) ELSE @] :
        s \in get_session(session_id)}

update_progress_obj(session_id, stage, papers_found, papers_analyzed, current_paper_index) ==
    {[s EXCEPT
        !.stage = IF stage # {} THEN Val(stage) ELSE @,
        !.papers_found = IF papers_found # {} THEN Val(papers_found) ELSE @,
        !.papers_analyzed =
            IF papers_analyzed # {} THEN Val(papers_analyzed) ELSE @,
        !.current_paper_index =
            IF current_paper_index # {} THEN Val(current_paper_index) ELSE @] :
        s \in get_session(session_id)}

\* The store after a method: obj is what the method passes to save_session,
\* {} when it returned before saving
Saved(obj, now) ==
    IF obj = {}
    THEN [sessions |-> sessions, disk |-> disk]
    ELSE save_session(sessions, disk, Val(obj), now)

create_session(session_id, query, config, now1, now2) ==
    LET session == create_session_obj(session_id, query, config, now1)
    IN  save_session(Put(sessions, session_id, session), disk, session, now2)

\* pause_session recording the pause in the stage as well
pause_session_stage_paused(session_id, now1, now2) ==
    Saved({[s EXCEPT !.stage = "paused"] :
               s \in pause_session_obj(session_id, now1)}, now2)

pause_session(session_id, now1, now2) ==
    Saved(pause_session_obj(session_id, now1), now2)

\* resume_session saving the session it found before it tests the status
resume_session_touch_on_failure(session_id, now1, now2) ==
    IF resume_session_obj(session_id, now1) = {}
    THEN Saved(get_session(session_id), now2)
    ELSE Saved(resume_session_obj(session_id, now1), now2)

resume_session(session_id, now1, now2) ==
    Saved(resume_session_obj(session_id, now1), now2)

complete_session(session_id, now) ==
    Saved(complete_session_obj(session_id), now)

fail_session(session_id, error, now) ==
    Saved(fail_session_obj(session_id, error), now)

update_progress(session_id, stage, papers_found, papers_analyzed, current_paper_index, now) ==
    Saved(update_progress_obj(session_id, stage, papers_found, papers_analyzed,
                              current_paper_index), now)

\* delete_session removing only the cache entry
delete_session_memory_only(session_id) ==
    IF session_id \notin DOMAIN sessions
    THEN [sessions |-> sessions, disk |-> disk, checkpoints |-> checkpoints,
          ret |-> "False"]
    ELSE [sessions |-> Del(sessions, session_id),
          disk |-> disk,
          checkpoints |-> checkpoints,
          ret |-> "True"]

\* delete_session: the cache entry, the session file and the checkpoint file
delete_session(session_id) ==
    IF session_id \notin DOMAIN sessions
    THEN [sessions |-> sessions, disk |-> disk, checkpoints |-> checkpoints,
          ret |-> "False"]
    ELSE [sessions |-> Del(sessions, session_id),
          disk |-> Del(disk, session_id),
          checkpoints |-> Del(checkpoints, session_id),
          ret |-> "True"]

\* save_checkpoint: the whole blob replaces the file
save_checkpoint(session_id, checkpoint_data) ==
    Put(checkpoints, session_id, checkpoint_data)

\* load_checkpoint: the blob in the checkpoint file, None without a file
load_checkpoint(session_id) ==
    IF session_id \in DOMAIN checkpoints THEN {checkpoints[session_id]} ELSE {}

\* The orders in which self.sessions can be iterated: a dict keeps insertion
\* order, which create_session and the glob of _load_sessions decide
DictOrders ==
    {order \in [1..Cardinality(DOMAIN sessions) -> DOMAIN sessions] :
        \A i, j \in DOMAIN order : i # j => order[i] # order[j]}

SessionStatuses == {"running", "paused", "completed", "failed"}

\* one step of a sort that puts the smaller updated_at first
insert_sorted_ascending(sorted, id) ==
    LET before == Cardinality({i \in DOMAIN sorted :
                      sessions[sorted[i]].updated_at <= sessions[id].updated_at})
    IN  SubSeq(sorted, 1, before) \o <<id>>
            \o SubSeq(sorted, before + 1, Len(sorted))

\* one step of sessions.sort(key=lambda s: s.updated_at, reverse=True): the
\* sort is stable, so the item goes behind every item already placed whose
\* updated_at is greater or equal
insert_sorted(sorted, id) ==
    LET before == Cardinality({i \in DOMAIN sorted :
                      sessions[sorted[i]].updated_at >= sessions[id].updated_at})
    IN  SubSeq(sorted, 1, before) \o <<id>>
            \o SubSeq(sorted, before + 1, Len(sorted))

RECURSIVE sort_by_updated_at(_)
sort_by_updated_at(list) ==
    IF list = <<>>
    THEN <<>>
    ELSE insert_sorted(sort_by_updated_at(SubSeq(list, 1, Len(list) - 1)),
                       list[Len(list)])

\* list_sessions(status) when the dict is iterated in the given order; the
\* sessions of the result are named by their ids
list_sessions(order, status) ==
    LET Keep(id) == sessions[id].status = Val(status)
    IN  sort_by_updated_at(IF status = {} THEN order
                           ELSE SelectSeq(order, Keep))

\* The resume point of a session: its stage and its three counters
Checkpoint(s) ==
    <<s.stage, s.papers_found, s.papers_analyzed, s.current_paper_index>>

----------------------------------------------------------------------------
(* Spec: one caller, every method an atomic call *)

IdleThreads == [t \in Threads |-> "idle"]
NoCalls     == [t \in Threads |-> [op |-> "none"]]
NoSaving    == [step |-> "none"]
NoCrash     == [happened |-> FALSE]
NoTask      == [op |-> "none"]

\* ResearchCoordinationProtocol(): an empty queue and an empty log
NoBus ==
    /\ messages = <<>>
    /\ message_queue = <<>>
    /\ message_log = <<>>
    /\ tasks = [c \in Tasks |-> NoTask]
    /\ loop_time = 0
    /\ delivered = <<>>

\* SessionManager(storage_dir) on an empty directory
Init ==
    /\ sessions = EmptyDict
    /\ disk = EmptyDict
    /\ checkpoints = EmptyDict
    /\ clock = 0
    /\ last = [op |-> "init"]
    /\ pauseSnap = [id \in SessionIds |-> {}]
    /\ pc = IdleThreads
    /\ call = NoCalls
    /\ saving = NoSaving
    /\ crash = NoCrash
    /\ NoBus

CreateWith(id, request) ==
    \E now1 \in Now(clock) : \E now2 \in Now(now1) :
        LET query  == request.query
            config == request.config
            r == create_session(id, query, config, now1, now2)
        IN  /\ sessions' = r.sessions
            /\ disk' = r.disk
            /\ clock' = now2
            /\ last' = [op |-> "create_session", id |-> id, ret |-> "session",
                        query |-> query, config |-> config]
            /\ UNCHANGED <<checkpoints, concVars, crashVars>>

Create(id) == \E request \in Requests : CreateWith(id, request)

Pause(id) ==
    \E now1 \in Now(clock) : \E now2 \in Now(now1) :
        LET ok == pause_session_obj(id, now1) # {}
            r  == pause_session(id, now1, now2)
        IN  /\ sessions' = r.sessions
            /\ disk' = r.disk
            /\ clock' = IF ok THEN now2 ELSE clock
            /\ last' = [op |-> "pause_session", id |-> id,
                        ret |-> IF ok THEN "True" ELSE "False"]
            /\ UNCHANGED <<checkpoints, concVars, crashVars>>

Resume(id) ==
    \E now1 \in Now(clock) : \E now2 \in Now(now1) :
        LET ok == resume_session_obj(id, now1) # {}
            r  == resume_session(id, now1, now2)
        IN  /\ sessions' = r.sessions
            /\ disk' = r.disk
            /\ clock' = IF ok THEN now2 ELSE clock
            /\ last' = [op |-> "resume_session", id |-> id,
                        ret |-> IF ok THEN "session" ELSE "None"]
            /\ UNCHANGED <<checkpoints, concVars, crashVars>>

Complete(id) ==
    \E now \in Now(clock) :
        LET r == complete_session(id, now)
        IN  /\ sessions' = r.sessions
            /\ disk' = r.disk
            /\ clock' = IF get_session(id) # {} THEN now ELSE clock
            /\ last' = [op |-> "complete_session", id |-> id, ret |-> "None"]
            /\ UNCHANGED <<checkpoints, concVars, crashVars>>

Fail(id) ==
    \E error \in Errors : \E now \in Now(clock) :
        LET r == fail_session(id, error, now)
        IN  /\ sessions' = r.sessions
            /\ disk' = r.disk
            /\ clock' = IF get_session(id) # {} THEN now ELSE clock
            /\ last' = [op |-> "fail_session", id |-> id, ret |-> "None",
                        error |-> error]
            /\ UNCHANGED <<checkpoints, concVars, crashVars>>

Progress(id, stage, papers_found, papers_analyzed, current_paper_index) ==
    \E now \in Now(clock) :
        LET r == update_progress(id, stage, papers_found, papers_analyzed,
                                 current_paper_index, now)
        IN  /\ sessions' = r.sessions
            /\ disk' = r.disk
            /\ clock' = IF get_session(id) # {} THEN now ELSE clock
            /\ last' = [op |-> "update_progress", id |-> id, ret |-> "None",
                        stage |-> stage, papers_found |-> papers_found,
                        papers_analyzed |-> papers_analyzed,
                        current_paper_index |-> current_paper_index]
            /\ UNCHANGED <<checkpoints, concVars, crashVars>>

\* update_progress with every combination of supplied and omitted
\* arguments; papers_found takes every count, the other two counters the
\* smallest and the largest
UpdateProgress(id) ==
    \E stage \in Opt(Stages), papers_found \in Opt(Counts),
       papers_analyzed \in Opt(EdgeCounts),
       current_paper_index \in Opt(EdgeCounts) :
        Progress(id, stage, papers_found, papers_analyzed, current_paper_index)

\* update_progress as run_research_session and the tests call it: a stage,
\* or a stage with the number of papers found
UpdateStage(id) ==
    \E stage \in Opt(Stages), papers_found \in Opt(Counts) :
        Progress(id, stage, papers_found, {}, {})

Delete(id) ==
    LET r == delete_session(id)
    IN  /\ sessions' = r.sessions
        /\ disk' = r.disk
        /\ checkpoints' = r.checkpoints
        /\ last' = [op |-> "delete_session", id |-> id, ret |-> r.ret]
        /\ UNCHANGED <<clock, concVars, crashVars>>

SaveCheckpoint(id) ==
    \E checkpoint_data \in Blobs :
        /\ checkpoints' = save_checkpoint(id, checkpoint_data)
        /\ last' = [op |-> "save_checkpoint", id |-> id, ret |-> "None"]
        /\ UNCHANGED <<sessions, disk, clock, concVars, crashVars>>

\* The process ends and a new SessionManager is constructed on the same
\* storage directory
Restart ==
    /\ sessions' = _load_sessions
    /\ last' = [op |-> "restart"]
    /\ UNCHANGED <<disk, checkpoints, clock, concVars, crashVars>>

\* A call of Spec or SpecStore: pauseSnap is not recorded
Untracked(call_) == call_ /\ UNCHANGED <<pauseSnap, busVars>>

\* One session id, every method with every input
Next ==
    \/ \E id \in OneSession : Untracked(Create(id))
    \/ \E id \in OneSession : Untracked(Pause(id))
    \/ \E id \in OneSession : Untracked(Resume(id))
    \/ \E id \in OneSession : Untracked(Complete(id))
    \/ \E id \in OneSession : Untracked(Fail(id))
    \/ \E id \in OneSession : Untracked(UpdateProgress(id))
    \/ \E id \in OneSession : Untracked(Delete(id))
    \/ Untracked(Restart)

Spec == Init /\ [][Next]_vars

\* SpecResume: the calls of Spec, with the checkpoint of every paused
\* session recorded: pauseSnap[id] is set when pause_session(id) returns
\* True, kept while the session is paused, and dropped when the session
\* leaves the paused status or the store
TrackPaused ==
    pauseSnap' =
        [id \in SessionIds |->
            IF last'.op = "pause_session" /\ last'.id = id
               /\ last'.ret = "True"
            THEN {Checkpoint(sessions'[id])}
            ELSE IF id \in DOMAIN sessions' /\ sessions'[id].status = "paused"
                 THEN pauseSnap[id]
                 ELSE {}]

Tracked(call_) == call_ /\ TrackPaused /\ UNCHANGED busVars

NextResume ==
    \/ \E id \in OneSession : Tracked(Create(id))
    \/ \E id \in OneSession : Tracked(Pause(id))
    \/ \E id \in OneSession : Tracked(Resume(id))
    \/ \E id \in OneSession : Tracked(Complete(id))
    \/ \E id \in OneSession : Tracked(Fail(id))
    \/ \E id \in OneSession : Tracked(UpdateProgress(id))
    \/ \E id \in OneSession : Tracked(Delete(id))
    \/ Tracked(Restart)

SpecResume == Init /\ [][NextResume]_vars

\* SpecStore: several sessions in one store; update_progress with the
\* arguments its callers pass
NextStore ==
    \/ \E id \in SessionIds : Untracked(Create(id))
    \/ \E id \in SessionIds : Untracked(Pause(id))
    \/ \E id \in SessionIds : Untracked(Resume(id))
    \/ \E id \in SessionIds : Untracked(Complete(id))
    \/ \E id \in SessionIds : Untracked(Fail(id))
    \/ \E id \in SessionIds : Untracked(UpdateStage(id))
    \/ \E id \in SessionIds : Untracked(Delete(id))
    \/ Untracked(Restart)

SpecStore == Init /\ [][NextStore]_vars

\* SpecPair: two sessions in one store, created from the same request;
\* update_progress is called with a stage, as run_research_session does
TestRequest == [query |-> "hypertension", config |-> "None"]

NextPair ==
    \/ \E id \in SessionIds : Untracked(CreateWith(id, TestRequest))
    \/ \E id \in SessionIds : Untracked(Pause(id))
    \/ \E id \in SessionIds : Untracked(Resume(id))
    \/ \E id \in SessionIds : Untracked(Complete(id))
    \/ \E id \in SessionIds : Untracked(Fail(id))
    \/ \E id \in SessionIds, stage \in Opt(Stages) :
          Untracked(Progress(id, stage, {}, {}, {}))
    \/ \E id \in SessionIds : Untracked(Delete(id))
    \/ Untracked(Restart)

SpecPair == Init /\ [][NextPair]_vars

\* SpecDelete: sessions and checkpoints of several ids are created,
\* changed and deleted in one store
NextDelete ==
    \/ \E id \in SessionIds : Untracked(Create(id))
    \/ \E id \in SessionIds : Untracked(Pause(id))
    \/ \E id \in SessionIds : Untracked(Complete(id))
    \/ \E id \in SessionIds : Untracked(SaveCheckpoint(id))
    \/ \E id \in SessionIds : Untracked(Delete(id))
    \/ Untracked(Restart)

SpecDelete == Init /\ [][NextDelete]_vars

----------------------------------------------------------------------------
(* Claims checked under Spec *)

Terminal == {"completed", "failed"}
StatusCalls == {"pause_session", "resume_session", "complete_session",
                "fail_session", "update_progress"}

\* C1: once a session is completed or failed, no pause_session,
\* resume_session, complete_session, fail_session or update_progress call
\* on it changes its status again.
C1_TerminalStatusIsFinal ==
    [][\A id \in SessionIds :
        (/\ id \in DOMAIN sessions
         /\ sessions[id].status \in Terminal
         /\ last'.op \in StatusCalls
         /\ last'.id = id)
        => (id \in DOMAIN sessions'
            /\ sessions'[id].status = sessions[id].status)]_vars

\* C2: pause_session returns True exactly when the session exists and is
\* running just before the call, a successful call leaves it paused, and a
\* pause_session right after a successful one on the same session fails.
C2_PauseOnlyFromRunning ==
    [][last'.op = "pause_session" =>
        LET id == last'.id
            wasRunning == id \in DOMAIN sessions
                          /\ sessions[id].status = "running"
        IN  /\ (last'.ret = "True") = wasRunning
            /\ last'.ret = "True" => sessions'[id].status = "paused"
            /\ (last.op = "pause_session" /\ last.id = id
                /\ last.ret = "True") => last'.ret = "False"]_vars

\* C2 witness: a paused session on which the latest call, a pause_session,
\* returned False.
C2_Witness ==
    /\ last.op = "pause_session"
    /\ last.ret = "False"
    /\ last.id \in DOMAIN sessions
    /\ sessions[last.id].status = "paused"

\* C3: resume_session returns the session exactly when it exists and is
\* paused just before the call, a successful call leaves it running, and on
\* a running (freshly created), completed or failed session it returns None.
C3_ResumeOnlyFromPaused ==
    [][last'.op = "resume_session" =>
        LET id == last'.id
            wasPaused == id \in DOMAIN sessions
                         /\ sessions[id].status = "paused"
        IN  /\ (last'.ret = "session") = wasPaused
            /\ last'.ret = "session" => sessions'[id].status = "running"
            /\ (last.op = "create_session" /\ last.id = id)
                => last'.ret = "None"
            /\ (id \in DOMAIN sessions
                /\ sessions[id].status \in Terminal \cup {"running"})
                => (last'.ret = "None" /\ sessions' = sessions)]_vars

\* C3 witness: resume_session has just returned None on a freshly created
\* session, which is still running in its first stage.
C3_Witness ==
    /\ last.op = "resume_session"
    /\ last.ret = "None"
    /\ last.id \in DOMAIN sessions
    /\ sessions[last.id].status = "running"
    /\ sessions[last.id].stage = "initializing"

\* C5: create_session with an id that is already present fails with a
\* duplicate-session outcome and leaves the existing session unchanged in
\* memory and in durable storage.
C5_DuplicateCreateRejected ==
    [][\A id \in SessionIds :
        (last'.op = "create_session" /\ last'.id = id
         /\ id \in DOMAIN sessions)
        => (/\ last'.ret = "duplicate"
            /\ sessions'[id] = sessions[id]
            /\ disk'[id] = disk[id])]_vars

\* C6: for a session id not yet present, create_session followed at once by
\* get_session gives a session that is running, in stage "initializing",
\* with the supplied query and the three counters at 0.
C6_CreateThenGet ==
    [][\A id \in SessionIds :
        (last'.op = "create_session" /\ last'.id = id
         /\ id \notin DOMAIN sessions)
        => (/\ get_session(id)' # {}
            /\ LET s == Val(get_session(id)')
               IN  /\ s.status = "running"
                   /\ s.stage = "initializing"
                   /\ s.query = last'.query
                   /\ s.papers_found = 0
                   /\ s.papers_analyzed = 0
                   /\ s.current_paper_index = 0)]_vars

\* C6 witness: create_session has just returned and the store holds the
\* session with the second query.
C6_Witness ==
    /\ last.op = "create_session"
    /\ last.query = "diabetes research"
    /\ get_session(last.id) # {}
    /\ Val(get_session(last.id)).query = "diabetes research"
    /\ Val(get_session(last.id)).status = "running"

C9_ResumeAtPausedCheckpoint ==
    [][(last'.op = "resume_session" /\ last'.ret = "session")
        => (/\ pauseSnap[last'.id] # {}
            /\ Checkpoint(sessions'[last'.id]) = Val(pauseSnap[last'.id]))]_vars

\* C10: update_progress on an existing session sets the supplied fields,
\* keeps every field that is not supplied, and never changes status, query,
\* config or created_at.
C10_UpdateProgressIsPartial ==
    [][\A id \in SessionIds :
        (last'.op = "update_progress" /\ last'.id = id
         /\ id \in DOMAIN sessions)
        => (/\ id \in DOMAIN sessions'
            /\ LET a == sessions[id]
                   b == sessions'[id]
                   Kept(arg, old, new) ==
                       new = IF arg # {} THEN Val(arg) ELSE old
               IN  /\ Kept(last'.stage, a.stage, b.stage)
                   /\ Kept(last'.papers_found, a.papers_found, b.papers_found)
                   /\ Kept(last'.papers_analyzed, a.papers_analyzed,
                           b.papers_analyzed)
                   /\ Kept(last'.current_paper_index, a.current_paper_index,
                           b.current_paper_index)
                   /\ b.status = a.status
                   /\ b.query = a.query
                   /\ b.config = a.config
                   /\ b.created_at = a.created_at)]_vars

\* C10 witness: an update_progress that supplied only the stage has left a
\* session with papers_found still at the value set before.
C10_Witness ==
    /\ last.op = "update_progress"
    /\ last.stage = {"searching"}
    /\ last.papers_found = {}
    /\ last.papers_analyzed = {}
    /\ last.current_paper_index = {}
    /\ last.id \in DOMAIN sessions
    /\ sessions[last.id].stage = "searching"
    /\ sessions[last.id].papers_found = MaxCount

\* C20: a session enters status completed only from status running; in
\* particular complete_session on a paused session leaves it paused.
C20_CompleteOnlyFromRunning ==
    [][\A id \in SessionIds :
        (/\ id \in DOMAIN sessions
         /\ id \in DOMAIN sessions'
         /\ last'.op = "complete_session"
         /\ sessions[id].status # "completed"
         /\ sessions'[id].status = "completed")
        => sessions[id].status = "running"]_vars

\* C19 (checked under SpecDelete): delete_session on a session in the store
\* returns True and leaves nothing of it: get_session finds none, a manager
\* started on the same storage loads none, and load_checkpoint returns
\* None; on an absent id it returns False and changes no session, in memory
\* or on disk.  The other sessions stay as they are in both cases.
C19_DeleteRemovesEverything ==
    [][\A id \in SessionIds :
        (last'.op = "delete_session" /\ last'.id = id) =>
            /\ IF id \in DOMAIN sessions
               THEN /\ last'.ret = "True"
                    /\ get_session(id)' = {}
                    /\ id \notin DOMAIN _load_sessions'
                    /\ load_checkpoint(id)' = {}
               ELSE /\ last'.ret = "False"
                    /\ sessions' = sessions
                    /\ disk' = disk
            /\ \A other \in SessionIds \ {id} :
                 /\ get_session(other)' = get_session(other)
                 /\ load_session(other)' = load_session(other)
                 /\ load_checkpoint(other)' = load_checkpoint(other)]_vars

\* C19 witness: delete_session has just returned True for one session,
\* nothing of it is left, and the other session and its checkpoint are
\* still there.
C19_Witness ==
    /\ last.op = "delete_session"
    /\ last.ret = "True"
    /\ get_session(last.id) = {}
    /\ load_session(last.id) = {}
    /\ load_checkpoint(last.id) = {}
    /\ \E other \in SessionIds \ {last.id} :
         /\ get_session(other) # {}
         /\ load_checkpoint(other) # {}

----------------------------------------------------------------------------
(* SpecConc: two threads share one SessionManager.  Nothing in the class    *)
(* takes a lock, so a thread can be scheduled between the guard of          *)
(* pause_session / resume_session (the lines up to the early return) and    *)
(* the write that follows it.  `session` in those methods is a reference to *)
(* the shared object, so the write acts on the object as it is by then.     *)

Other(t) == CHOOSE u \in Threads : u # t

\* the sessions the threads work on exist: create_session has returned
InitConc ==
    /\ \E request \in Requests :
         LET r == save_session(EmptyDict, EmptyDict,
                               create_session_obj("s1", request.query,
                                                  request.config, 0), 0)
         IN  sessions = r.sessions /\ disk = r.disk
    /\ checkpoints = EmptyDict
    /\ clock = 0
    /\ last = [op |-> "init"]
    /\ pauseSnap = [id \in SessionIds |-> {}]
    /\ pc = IdleThreads
    /\ call = NoCalls
    /\ saving = NoSaving
    /\ crash = NoCrash
    /\ NoBus

\* the threads that are between guard and write of the same method on id
InFlight(op, id, t) ==
    {u \in Threads \ {t} :
        pc[u] = "write" /\ call[u].op = op /\ call[u].id = id}

\* pause_session up to the early return
PauseCheck(t, id) ==
    /\ pc[t] = "idle"
    /\ LET session == get_session(id)
           pass == ~(session = {} \/ Val(session).status # "running")
       IN  /\ pc' = [pc EXCEPT ![t] = IF pass THEN "write" ELSE "returned"]
           /\ call' = [call EXCEPT ![t] =
                        [op |-> "pause_session", id |-> id,
                         ret |-> IF pass THEN "pending" ELSE "False",
                         during |-> InFlight("pause_session", id, t)]]
    /\ UNCHANGED <<busVars, storeVars, histVars, crashVars>>

\* pause_session from the status assignment to `return True`
PauseWrite(t) ==
    /\ pc[t] = "write"
    /\ call[t].op = "pause_session"
    /\ \E now1 \in Now(clock) : \E now2 \in Now(now1) :
         LET session == sessions[call[t].id]
             r == save_session(sessions, disk,
                               [session EXCEPT !.status = "paused",
                                               !.updated_at = now1], now2)
         IN  /\ sessions' = r.sessions
             /\ disk' = r.disk
             /\ clock' = now2
    /\ pc' = [pc EXCEPT ![t] = "returned"]
    /\ call' = [call EXCEPT ![t].ret = "True"]
    /\ UNCHANGED <<busVars, checkpoints, histVars, crashVars>>

\* resume_session up to the early return
ResumeCheck(t, id) ==
    /\ pc[t] = "idle"
    /\ LET session == get_session(id)
           pass == ~(session = {} \/ Val(session).status # "paused")
       IN  /\ pc' = [pc EXCEPT ![t] = IF pass THEN "write" ELSE "returned"]
           /\ call' = [call EXCEPT ![t] =
                        [op |-> "resume_session", id |-> id,
                         ret |-> IF pass THEN "pending" ELSE "None",
                         during |-> InFlight("resume_session", id, t)]]
    /\ UNCHANGED <<busVars, storeVars, histVars, crashVars>>

\* resume_session from the status assignment to `return session`
ResumeWrite(t) ==
    /\ pc[t] = "write"
    /\ call[t].op = "resume_session"
    /\ \E now1 \in Now(clock) : \E now2 \in Now(now1) :
         LET session == sessions[call[t].id]
             r == save_session(sessions, disk,
                               [session EXCEPT !.status = "running",
                                               !.updated_at = now1], now2)
         IN  /\ sessions' = r.sessions
             /\ disk' = r.disk
             /\ clock' = now2
    /\ pc' = [pc EXCEPT ![t] = "returned"]
    /\ call' = [call EXCEPT ![t].ret = "session"]
    /\ UNCHANGED <<busVars, checkpoints, histVars, crashVars>>

\* the caller takes the return value; the thread is free for its next call
Return(t) ==
    /\ pc[t] = "returned"
    /\ pc' = [pc EXCEPT ![t] = "idle"]
    /\ call' = [call EXCEPT ![t] = [op |-> "none"]]
    /\ UNCHANGED <<busVars, storeVars, histVars, crashVars>>

\* the background worker of run_research_session: update_progress(stage=...)
\* and complete_session, each between two steps of the other threads
WorkerProgress(t, id) ==
    /\ pc[t] = "idle"
    /\ \E stage \in Opt(Stages), now \in Now(clock) :
         LET r == update_progress(id, stage, {}, {}, {}, now)
         IN  /\ sessions' = r.sessions
             /\ disk' = r.disk
             /\ clock' = IF get_session(id) # {} THEN now ELSE clock
    /\ UNCHANGED <<busVars, checkpoints, histVars, concVars, crashVars>>

WorkerComplete(t, id) ==
    /\ pc[t] = "idle"
    /\ \E now \in Now(clock) :
         LET r == complete_session(id, now)
         IN  /\ sessions' = r.sessions
             /\ disk' = r.disk
             /\ clock' = IF get_session(id) # {} THEN now ELSE clock
    /\ UNCHANGED <<busVars, checkpoints, histVars, concVars, crashVars>>

NextConc ==
    \/ \E t \in Threads, id \in OneSession : PauseCheck(t, id)
    \/ \E t \in Threads : PauseWrite(t)
    \/ \E t \in Threads, id \in OneSession : ResumeCheck(t, id)
    \/ \E t \in Threads : ResumeWrite(t)
    \/ \E t \in Threads : Return(t)
    \/ \E t \in Threads, id \in OneSession : WorkerProgress(t, id)
    \/ \E t \in Threads, id \in OneSession : WorkerComplete(t, id)

SpecConc == InitConc /\ [][NextConc]_vars

\* C4: of two pause_session calls on the same running session that run
\* concurrently (one passes its guard while the other is between its guard
\* and its write), at most one returns True.
C4_ConcurrentPauseAtMostOne ==
    \A t \in Threads :
        LET u == Other(t)
        IN  ~(/\ pc[t] = "returned" /\ pc[u] = "returned"
              /\ call[t].op = "pause_session" /\ call[u].op = "pause_session"
              /\ call[t].id = call[u].id
              /\ u \in call[t].during
              /\ call[t].ret = "True" /\ call[u].ret = "True")

----------------------------------------------------------------------------
(* SpecCrash: save_session step by step.  open(filepath, 'w') truncates the *)
(* session's file, json.dump writes into it, leaving the `with` block       *)
(* flushes and closes it.  The process can die between any two steps; what  *)
(* the file holds then is what the next SessionManager finds.               *)

Alive == ~crash.happened

\* a method has mutated its session in memory and enters save_session:
\* updated_at is refreshed, the file is not yet opened.  `crash` describes
\* the latest crash until the next call.
BeginSave(obj, now) ==
    /\ Alive
    /\ saving.step = "none"
    /\ obj # {}
    /\ LET s2 == [Val(obj) EXCEPT !.updated_at = now]
       IN  /\ sessions' = Put(sessions, s2.session_id, s2)
           /\ saving' = [step |-> "open", session |-> s2,
                         before |-> load_session(s2.session_id)]
    /\ clock' = now
    /\ last' = [op |-> "save_session"]
    /\ crash' = NoCrash
    /\ UNCHANGED <<busVars, disk, checkpoints, pauseSnap, concVars>>

CrashCreate(id) ==
    \E request \in Requests :
    \E now1 \in Now(clock) : \E now2 \in Now(now1) :
        BeginSave({create_session_obj(id, request.query, request.config,
                                      now1)}, now2)

CrashPause(id) ==
    \E now1 \in Now(clock) : \E now2 \in Now(now1) :
        BeginSave(pause_session_obj(id, now1), now2)

CrashResume(id) ==
    \E now1 \in Now(clock) : \E now2 \in Now(now1) :
        BeginSave(resume_session_obj(id, now1), now2)

CrashProgress(id) ==
    \E stage \in Opt(Stages), papers_found \in Opt(Counts) :
    \E now \in Now(clock) :
        BeginSave(update_progress_obj(id, stage, papers_found, {}, {}), now)

CrashComplete(id) ==
    \E now \in Now(clock) :
        BeginSave(complete_session_obj(id), now)

\* with open(filepath, 'w') as f: the file exists and is empty
SaveOpen ==
    /\ Alive
    /\ saving.step = "open"
    /\ disk' = Put(disk, saving.session.session_id, [state |-> "empty"])
    /\ saving' = [saving EXCEPT !.step = "dump"]
    /\ UNCHANGED <<busVars, sessions, checkpoints, clock, histVars, concVars, crash>>

\* json.dump(...): a first part of the document has reached the file
SaveFlush ==
    /\ Alive
    /\ saving.step = "dump"
    /\ disk' = Put(disk, saving.session.session_id, [state |-> "partial"])
    /\ UNCHANGED <<busVars, sessions, checkpoints, clock, histVars, concVars,
                   crashVars>>

\* the `with` block is left: the whole document is in the file; then the
\* cache entry is set and save_session returns
SaveClose ==
    /\ Alive
    /\ saving.step = "dump"
    /\ disk' = Put(disk, saving.session.session_id,
                   json_dump(to_dict(saving.session)))
    /\ sessions' = Put(sessions, saving.session.session_id, saving.session)
    /\ saving' = NoSaving
    /\ UNCHANGED <<busVars, checkpoints, clock, histVars, concVars, crash>>

\* the process dies: its memory is gone, the files stay as they are
Crash ==
    /\ Alive
    /\ sessions' = EmptyDict
    /\ saving' = NoSaving
    /\ crash' = IF saving.step = "none"
                THEN [happened |-> TRUE, midSave |-> FALSE]
                ELSE [happened |-> TRUE, midSave |-> TRUE,
                      id |-> saving.session.session_id,
                      before |-> saving.before,
                      new |-> saving.session]
    /\ last' = [op |-> "crash"]
    /\ UNCHANGED <<busVars, disk, checkpoints, clock, pauseSnap, concVars>>

\* a SessionManager is started afterwards on the same directory
CrashRestart ==
    /\ crash.happened
    /\ sessions' = _load_sessions
    /\ crash' = [crash EXCEPT !.happened = FALSE]
    /\ last' = [op |-> "restart"]
    /\ UNCHANGED <<busVars, disk, checkpoints, clock, pauseSnap, concVars, saving>>

NextCrash ==
    \/ \E id \in OneSession : CrashCreate(id)
    \/ \E id \in OneSession : CrashPause(id)
    \/ \E id \in OneSession : CrashResume(id)
    \/ \E id \in OneSession : CrashProgress(id)
    \/ \E id \in OneSession : CrashComplete(id)
    \/ SaveOpen
    \/ SaveFlush
    \/ SaveClose
    \/ Crash
    \/ CrashRestart

SpecCrash == Init /\ [][NextCrash]_vars

\* C8: when the process crashes inside save_session, the SessionManager
\* started afterwards holds for that id the complete previous record or the
\* complete new record, and it holds the session if one was stored before.
C8_CrashAtomicSave ==
    (last.op = "restart" /\ crash.midSave) =>
        LET got == get_session(crash.id)
        IN  /\ got \in {crash.before, {crash.new}}
            /\ crash.before # {} => got # {}

\* C22 (checked under SpecPair): update_progress, complete_session and
\* fail_session on an id that is not in the store return None and change
\* nothing: no session appears in memory, no file is written, and every
\* existing session stays as it is.
C22_MissingSessionNoOp ==
    [][(/\ last'.op \in {"update_progress", "complete_session",
                         "fail_session"}
        /\ last'.id \notin DOMAIN sessions)
       => (/\ last'.ret = "None"
           /\ sessions' = sessions
           /\ disk' = disk
           /\ checkpoints' = checkpoints)]_vars

\* C22 witness: complete_session was just called on an id that is not in
\* the store while another session is running; nothing exists for the id.
C22_Witness ==
    /\ last.op = "complete_session"
    /\ last.id \notin DOMAIN sessions
    /\ last.id \notin DOMAIN disk
    /\ \E other \in DOMAIN sessions : sessions[other].status = "running"

\* C23: a pause_session that returns False and a resume_session that
\* returns None change nothing: the sessions in memory (status, stage,
\* counters, updated_at of each, and which ids there are) and the session
\* files are the same after the call as before.
C23_FailedPauseResumeNoEffect ==
    [][(\/ last'.op = "pause_session" /\ last'.ret = "False"
        \/ last'.op = "resume_session" /\ last'.ret = "None")
       => (/\ sessions' = sessions
           /\ disk' = disk
           /\ checkpoints' = checkpoints)]_vars

\* C23 witness: resume_session has just returned None on a failed session
\* that had recorded progress before.
C23_Witness ==
    /\ last.op = "resume_session"
    /\ last.ret = "None"
    /\ last.id \in DOMAIN sessions
    /\ sessions[last.id].status = "failed"
    /\ sessions[last.id].papers_found = MaxCount

\* The last call changed a session that is still in the store
Mutated ==
    /\ last.op \in {"create_session", "update_progress", "pause_session",
                    "resume_session", "complete_session", "fail_session"}
    /\ last.op = "pause_session" => last.ret = "True"
    /\ last.op = "resume_session" => last.ret = "session"
    /\ last.id \in DOMAIN sessions

\* list_sessions(status) holds exactly the sessions of the store that pass
\* the filter, each once, in non-increasing order of updated_at
ExactAndOrdered(listed, status) ==
    /\ {listed[i] : i \in DOMAIN listed}
           = {id \in DOMAIN sessions :
                 status # {} => sessions[id].status = Val(status)}
    /\ \A i, j \in DOMAIN listed :
           i < j => /\ listed[i] # listed[j]
                    /\ sessions[listed[i]].updated_at
                           >= sessions[listed[j]].updated_at

C27_CountersNeverDecrease ==
    [][last'.op = "update_progress" =>
          \A id \in DOMAIN sessions \cap DOMAIN sessions' :
              /\ sessions'[id].papers_found >= 0
              /\ sessions'[id].papers_analyzed >= 0
              /\ sessions'[id].current_paper_index >= 0
              /\ sessions'[id].papers_found >= sessions[id].papers_found
              /\ sessions'[id].papers_analyzed >= sessions[id].papers_analyzed
              /\ sessions'[id].current_paper_index
                     >= sessions[id].current_paper_index]_vars

\* C28 (checked under Spec): a pause_session that returns True and a
\* resume_session that returns the session change only status and updated_at
\* of the session: stage, the three counters, query, config, created_at,
\* analyzed_papers and report are as before, and so is every other session;
\* a complete_session on a session of the store leaves both its status and
\* its stage "completed".
C28_PauseResumeKeepProgress ==
    [][LET id == last'.id
       IN  /\ (\/ last'.op = "pause_session" /\ last'.ret = "True"
               \/ last'.op = "resume_session" /\ last'.ret = "session")
              => /\ id \in DOMAIN sessions
                 /\ sessions'[id].status
                        = (IF last'.op = "pause_session"
                           THEN "paused" ELSE "running")
                 /\ sessions'
                        = [sessions EXCEPT
                              ![id] = [@ EXCEPT
                                  !.status = sessions'[id].status,
                                  !.updated_at = sessions'[id].updated_at]]
           /\ (last'.op = "complete_session" /\ id \in DOMAIN sessions)
              => /\ sessions'[id].status = "completed"
                 /\ sessions'[id].stage = "completed"]_vars

\* C28 witness: a session that reached stage "searching" with papers found
\* has just been paused and still shows that stage and that count.
C28_Witness ==
    /\ last.op = "pause_session"
    /\ last.ret = "True"
    /\ sessions[last.id].status = "paused"
    /\ sessions[last.id].stage = "searching"
    /\ sessions[last.id].papers_found = MaxCount
    /\ sessions[last.id].current_paper_index = MaxCount

\* SpecFail: save_session step by step, where open() or json.dump() can
\* raise; the process lives on and the exception reaches the caller

\* open(filepath, 'w') raises, or json.dump raises inside the `with` block,
\* which closes the file as it is; line 174 is not reached and nothing is
\* caught, so the method that called save_session ends with the exception
SaveFail ==
    /\ Alive
    /\ saving.step \in {"open", "dump"}
    /\ saving' = NoSaving
    /\ last' = [op |-> "save_failed", step |-> saving.step,
                session |-> saving.session, before |-> saving.before]
    /\ UNCHANGED <<busVars, sessions, disk, checkpoints, clock, pauseSnap,
                   concVars, crash>>

NextFail ==
    \/ \E id \in OneSession : CrashCreate(id)
    \/ \E id \in OneSession : CrashPause(id)
    \/ \E id \in OneSession : CrashResume(id)
    \/ \E id \in OneSession : CrashProgress(id)
    \/ \E id \in OneSession : CrashComplete(id)
    \/ SaveOpen
    \/ SaveFlush
    \/ SaveClose
    \/ SaveFail

SpecFail == Init /\ [][NextFail]_vars

\* C30 (checked under SpecFail): when the write inside a method
\* fails, the sessions in memory are the sessions of the durable store: the
\* session has the status, stage and counters it had before the call, and
\* a failed create leaves no session in memory.
C30_FailedWriteLeavesMemoryAsStored ==
    last.op = "save_failed" => sessions = _load_sessions

\* C21 (checked under SpecCrash): a session file that exists but cannot be
\* decoded is not reported like an absent one: load_session does not return
\* None, the result it gives for a missing file, and the manager started on
\* the storage does not simply lack the session.
C21_ReadFailureSurfaced ==
    last.op = "restart" =>
        \A id \in DOMAIN disk :
            json_load(disk[id]) = {} =>
                /\ load_session(id) # {}
                /\ get_session(id) # {}

----------------------------------------------------------------------------
(* ResearchCoordinationProtocol (utils/a2a_protocol.py).  An A2AMessage is  *)
(* a mutable object: message_queue and message_log hold references to it,   *)
(* modelled as message ids into `messages`.  message_id is a uuid4; the     *)
(* model numbers the messages 1, 2, ... in the order they are constructed.  *)

MaxMsgs    == 3
MaxTime    == 2
MaxTimeout == 1

MessageTypes == {"research_request", "research_results", "status_update",
                 "error", "validation_request", "validation_response"}
Priorities   == {"low", "normal", "high", "urgent"}
Agents       == {"agent_a", "agent_b"}

\* the correlation id a caller passes explicitly: the id of the first message
CorrelationIds == {1}

A2AMessage(message_id, sender, receiver, message_type, priority, correlation_id) ==
    [message_id     |-> message_id,
     sender         |-> sender,
     receiver       |-> receiver,
     message_type   |-> message_type,
     priority       |-> priority,
     correlation_id |-> correlation_id]

\* send_research_request: priority HIGH, no correlation id
send_research_request(message_id, from_agent, to_agent) ==
    A2AMessage(message_id, from_agent, to_agent, "research_request", "high", {})

\* send_research_results: priority NORMAL, the correlation id as passed
send_research_results(message_id, from_agent, to_agent, correlation_id) ==
    A2AMessage(message_id, from_agent, to_agent, "research_results", "normal",
               correlation_id)

\* send_status_update: priority LOW, no correlation id
send_status_update(message_id, from_agent, to_agent) ==
    A2AMessage(message_id, from_agent, to_agent, "status_update", "low", {})

\* The messages callers hand to send_message: a request, the results that
\* answer the first request, a status update, and a validation request
\* built directly with an explicit correlation id
Outgoing(message_id) ==
    {send_research_request(message_id, "agent_a", "agent_b"),
     send_status_update(message_id, "agent_b", "agent_a")}
    \cup {send_research_results(message_id, "agent_b", "agent_a", {cid}) :
            cid \in CorrelationIds}
    \cup {A2AMessage(message_id, "agent_a", "agent_b", "validation_request",
                     "urgent", {cid}) : cid \in CorrelationIds}

\* The messages the agents answer with: results for the first request and
\* status updates
Replies(message_id) ==
    {m \in Outgoing(message_id) :
        m.message_type \in {"research_results", "status_update"}}

Rank(priority) ==
    CASE priority = "low" -> 0 [] priority = "normal" -> 1
      [] priority = "high" -> 2 [] priority = "urgent" -> 3

\* the queue as a priority queue would keep it: the item goes before the
\* waiting items of lower priority
queue_put_by_priority(M, queue, item) ==
    LET ahead == {i \in 1..Len(queue) :
                    Rank(M[queue[i]].priority) >= Rank(M[item].priority)}
        n == Cardinality(ahead)
    IN  SubSeq(queue, 1, n) \o <<item>> \o SubSeq(queue, n + 1, Len(queue))

\* asyncio.Queue.put on the unbounded queue: the item goes to the end
queue_put(M, queue, item) == Append(queue, item)

\* a get that reads the first item and leaves it in the queue
queue_get_peek(queue) == [item |-> Head(queue), queue |-> queue]

\* asyncio.Queue.get on a non-empty queue: the first item leaves the queue
queue_get(queue) == [item |-> Head(queue), queue |-> Tail(queue)]

\* a log that keeps the newest message first
log_prepend(log, item) == <<item>> \o log

\* message_log.append(message)
log_append(log, item) == Append(log, item)

\* send_message giving every message without a correlation id its own id
correlate_every_type(message) ==
    IF message.correlation_id = {}
    THEN [message EXCEPT !.correlation_id = {message.message_id}]
    ELSE message

\* the correlation id send_message leaves on the message
correlate(message) ==
    IF message.correlation_id = {}
       /\ message.message_type \in {"research_request", "validation_request"}
    THEN [message EXCEPT !.correlation_id = {message.message_id}]
    ELSE message

\* send_message: log, enqueue, then set the correlation id on the object the
\* log and the queue refer to.  The queue is unbounded, so put() does not
\* suspend and no other task runs inside send_message.
send_message(message) ==
    LET M == Append(messages, correlate(message))
    IN  [messages      |-> M,
         message_log   |-> log_append(message_log, message.message_id),
         message_queue |-> queue_put(M, message_queue, message.message_id),
         ret           |-> message.message_id]

\* `if timeout:` in receive_message: None and 0 both take the branch
\* without a deadline
Truthy(timeout) == timeout # {} /\ Val(timeout) # 0

\* wait_for_response testing only `message`
is_response_any(message, correlation_id) == TRUE

\* `message and message.correlation_id == correlation_id`
is_response(message, correlation_id) ==
    message.correlation_id = {correlation_id}

\* a loop that puts a message that does not match back into the queue
after_scan_requeue(queue, item, matched) ==
    IF matched THEN queue ELSE Append(queue, item)

\* the queue after one turn of the wait_for_response loop that received
\* `item`: the item is not put back
after_scan(queue, item, matched) == queue

\* by_type / by_sender / by_receiver: one pass over the log, counting the
\* messages by the value of `field`
RECURSIVE Tally(_, _, _)
Tally(M, log, field) ==
    IF log = <<>>
    THEN EmptyDict
    ELSE LET by  == Tally(M, SubSeq(log, 1, Len(log) - 1), field)
             key == M[log[Len(log)]][field]
             get == IF key \in DOMAIN by THEN by[key] ELSE 0
         IN  Put(by, key, get + 1)

get_statistics_of(M, log) ==
    IF log = <<>>
    THEN [total_messages |-> 0, by_type |-> EmptyDict,
          by_sender |-> EmptyDict, by_receiver |-> EmptyDict]
    ELSE [total_messages |-> Len(log),
          by_type     |-> Tally(M, log, "message_type"),
          by_sender   |-> Tally(M, log, "sender"),
          by_receiver |-> Tally(M, log, "receiver")]

\* statistics over the messages that are still waiting in the queue
get_statistics_undelivered == get_statistics_of(messages, message_queue)

\* get_statistics(): over message_log
get_statistics == get_statistics_of(messages, message_log)

\* list[-n:] for n >= 0: -0 is 0, so n = 0 gives the whole list; otherwise
\* the last n items, or all of them when there are fewer
LastItems(list, n) ==
    IF n = 0 \/ n >= Len(list)
    THEN list
    ELSE SubSeq(list, Len(list) - n + 1, Len(list))

\* [m for m in messages if m.<field> == value], applied when value is set
FilterBy(M, list, field, value) ==
    IF value = {}
    THEN list
    ELSE LET Keep(item) == M[item][field] = Val(value)
         IN  SelectSeq(list, Keep)

\* get_message_log(sender, receiver, limit)
get_message_log(sender, receiver, limit) ==
    LastItems(FilterBy(messages,
                       FilterBy(messages, message_log, "sender", sender),
                       "receiver", receiver),
              limit)

\* a loop that takes start_time anew in every turn
elapsed_in_turn(now, start_time) == now - now

\* elapsed = asyncio.get_event_loop().time() - start_time
elapsed_time(now, start_time) == now - start_time

Busy(c) == tasks[c].op # "none"

Suspended(c) == Busy(c) /\ tasks[c].pc = "get"

----------------------------------------------------------------------------
(* SpecBus: tasks of one event loop use one bus.  A task runs until it      *)
(* suspends; it suspends in message_queue.get() (inside receive_message).   *)

Send(message) ==
    /\ LET r == send_message(message)
       IN  /\ messages' = r.messages
           /\ message_log' = r.message_log
           /\ message_queue' = r.message_queue
           /\ last' = [op |-> "send_message", ret |-> r.ret,
                       message |-> message]
    /\ UNCHANGED <<tasks, loop_time, delivered, sessVars>>

\* receive_message(timeout) is called and reaches message_queue.get()
ReceiveCall(c, timeout) ==
    /\ ~Busy(c)
    /\ Truthy(timeout) => loop_time + Val(timeout) <= MaxTime
    /\ tasks' = [tasks EXCEPT ![c] =
                  [op |-> "receive_message", pc |-> "get",
                   timeout |-> timeout, called |-> loop_time,
                   deadline |-> IF Truthy(timeout)
                                THEN {loop_time + Val(timeout)} ELSE {}]]
    /\ UNCHANGED <<messages, message_queue, message_log, loop_time,
                   delivered, last, sessVars>>

\* message_queue.get() completes and receive_message returns the message
ReceiveGet(c) ==
    /\ Suspended(c)
    /\ tasks[c].op = "receive_message"
    /\ message_queue # <<>>
    /\ LET g == queue_get(message_queue)
       IN  /\ message_queue' = g.queue
           /\ delivered' = Append(delivered,
                                  [task |-> c, op |-> "receive_message",
                                   item |-> g.item, returned |-> TRUE])
    /\ tasks' = [tasks EXCEPT ![c] = NoTask]
    /\ UNCHANGED <<messages, message_log, loop_time, last, sessVars>>

\* asyncio.wait_for cancels the get() at the deadline; receive_message
\* catches TimeoutError and returns None
ReceiveTimeout(c) ==
    /\ Suspended(c)
    /\ tasks[c].op = "receive_message"
    /\ message_queue = <<>>
    /\ tasks[c].deadline # {}
    /\ loop_time >= Val(tasks[c].deadline)
    /\ tasks' = [tasks EXCEPT ![c] = NoTask]
    /\ UNCHANGED <<messages, message_queue, message_log, loop_time,
                   delivered, last, sessVars>>

\* wait_for_response(correlation_id, timeout): start_time is taken
WaitCall(c, correlation_id, timeout) ==
    /\ ~Busy(c)
    /\ loop_time + timeout + 1 <= MaxTime
    /\ tasks' = [tasks EXCEPT ![c] =
                  [op |-> "wait_for_response", pc |-> "loop",
                   correlation_id |-> correlation_id, timeout |-> timeout,
                   start_time |-> loop_time, deadline |-> {}]]
    /\ UNCHANGED <<messages, message_queue, message_log, loop_time,
                   delivered, last, sessVars>>

\* the top of the loop: return None when elapsed > timeout, else call
\* receive_message(timeout=1)
WaitCheck(c) ==
    /\ Busy(c)
    /\ tasks[c].op = "wait_for_response"
    /\ tasks[c].pc = "loop"
    /\ LET elapsed == elapsed_time(loop_time, tasks[c].start_time)
       IN  IF elapsed > tasks[c].timeout
           THEN tasks' = [tasks EXCEPT ![c] = NoTask]
           ELSE tasks' = [tasks EXCEPT ![c].pc = "get",
                                       ![c].deadline = {loop_time + 1}]
    /\ UNCHANGED <<messages, message_queue, message_log, loop_time,
                   delivered, last, sessVars>>

\* receive_message(timeout=1) returns a message to the loop: it is returned
\* when it carries the correlation id, dropped otherwise
WaitGet(c) ==
    /\ Suspended(c)
    /\ tasks[c].op = "wait_for_response"
    /\ message_queue # <<>>
    /\ LET g == queue_get(message_queue)
           matched == is_response(messages[g.item], tasks[c].correlation_id)
       IN  /\ message_queue' = after_scan(g.queue, g.item, matched)
           /\ delivered' = Append(delivered,
                                  [task |-> c, op |-> "wait_for_response",
                                   item |-> g.item, returned |-> matched])
           /\ tasks' = [tasks EXCEPT ![c] =
                        IF matched
                        THEN NoTask
                        ELSE [@ EXCEPT !.pc = "loop", !.deadline = {}]]
    /\ UNCHANGED <<messages, message_log, loop_time, last, sessVars>>

\* receive_message(timeout=1) returns None to the loop
WaitTimeout(c) ==
    /\ Suspended(c)
    /\ tasks[c].op = "wait_for_response"
    /\ message_queue = <<>>
    /\ loop_time >= Val(tasks[c].deadline)
    /\ tasks' = [tasks EXCEPT ![c].pc = "loop", ![c].deadline = {}]
    /\ UNCHANGED <<messages, message_queue, message_log, loop_time,
                   delivered, last, sessVars>>

\* process_messages is started as a background task and reaches
\* receive_message() with no timeout
ProcessCall(c) ==
    /\ ~Busy(c)
    /\ tasks' = [tasks EXCEPT ![c] =
                  [op |-> "process_messages", pc |-> "get", deadline |-> {}]]
    /\ UNCHANGED <<messages, message_queue, message_log, loop_time,
                   delivered, last, sessVars>>

\* process_messages takes a message, hands it to the handlers of its type
\* and calls receive_message() again
ProcessGet(c) ==
    /\ Suspended(c)
    /\ tasks[c].op = "process_messages"
    /\ message_queue # <<>>
    /\ LET g == queue_get(message_queue)
       IN  /\ message_queue' = g.queue
           /\ delivered' = Append(delivered,
                                  [task |-> c, op |-> "process_messages",
                                   item |-> g.item, returned |-> TRUE])
    /\ UNCHANGED <<messages, message_log, tasks, loop_time, last, sessVars>>

\* a timer that is due fires before the loop's clock moves on
TimerDue ==
    \E c \in Tasks :
        /\ Suspended(c)
        /\ tasks[c].deadline # {}
        /\ loop_time >= Val(tasks[c].deadline)

Tick ==
    /\ loop_time < MaxTime
    /\ ~TimerDue
    /\ loop_time' = loop_time + 1
    /\ UNCHANGED <<messages, message_queue, message_log, tasks, delivered,
                   last, sessVars>>

Timeouts == 0..MaxTimeout

\* the timeout the callers of receive_message pass
PollTimeout == 1

\* one consumer task
NextBus ==
    \/ \E message \in Outgoing(Len(messages) + 1) :
          Len(messages) < MaxMsgs /\ Send(message)
    \/ \E c \in OneTask, timeout \in Opt(Timeouts) : ReceiveCall(c, timeout)
    \/ \E c \in OneTask : ReceiveGet(c)
    \/ \E c \in OneTask : ReceiveTimeout(c)
    \/ \E c \in OneTask, correlation_id \in CorrelationIds,
          timeout \in Timeouts : WaitCall(c, correlation_id, timeout)
    \/ \E c \in OneTask : WaitCheck(c)
    \/ \E c \in OneTask : WaitGet(c)
    \/ \E c \in OneTask : WaitTimeout(c)
    \/ Tick

SpecBus == Init /\ [][NextBus]_vars

----------------------------------------------------------------------------
(* Claims checked under SpecBus *)

\* the message ids taken from the queue so far, in the order taken
DeliveredItems == [i \in 1..Len(delivered) |-> delivered[i].item]

\* C11: the messages are taken from the queue in exactly the order they
\* were sent, whatever their priority: the ids delivered so far are the
\* first ids of the log, in log order.
C11_DeliveryIsFifo ==
    DeliveredItems = SubSeq(message_log, 1, Len(delivered))

\* C11 witness: three messages were sent, the first of low and the second
\* of urgent priority, and one task has received all three through
\* receive_message.
C11_Witness ==
    /\ Len(message_log) = 3
    /\ messages[1].priority = "low"
    /\ messages[2].priority = "urgent"
    /\ Len(delivered) = 3
    /\ \A i \in 1..3 : /\ delivered[i].op = "receive_message"
                       /\ delivered[i].task = "c1"
                       /\ delivered[i].item = i

Waiting(X) ==
    {i \in 1..Len(message_queue) :
        messages[message_queue[i]].correlation_id = {X}}

\* task c leaves wait_for_response in this step
WaitReturns(c) ==
    /\ tasks[c].op = "wait_for_response"
    /\ tasks'[c].op = "none"

\* the message the returning wait_for_response hands back, {} for None
WaitResult ==
    IF delivered' = delivered THEN {} ELSE {delivered'[Len(delivered')].item}

Earliest(X) == message_queue[CHOOSE i \in Waiting(X) :
                                \A j \in Waiting(X) : i <= j]

\* C14 as claimed: whenever wait_for_response(X, timeout) returns while an
\* unconsumed message with correlation id X is in the queue, it returns the
\* earliest-sent such message.
C14_ReturnsEarliestIfSent ==
    [][\A c \in OneTask :
        (WaitReturns(c) /\ Waiting(tasks[c].correlation_id) # {})
        => WaitResult = {Earliest(tasks[c].correlation_id)}]_vars

\* C14 amended: wait_for_response(X, timeout) returns either the
\* earliest-sent unconsumed message with correlation id X, or None at a loop
\* check at which more than timeout has elapsed since the call; it never
\* returns a message with another correlation id.
C14_ReturnsEarliestOrTimesOut ==
    [][\A c \in OneTask :
        WaitReturns(c) =>
            LET X == tasks[c].correlation_id
            IN  IF WaitResult = {}
                THEN loop_time - tasks[c].start_time > tasks[c].timeout
                ELSE /\ Waiting(X) # {}
                     /\ WaitResult = {Earliest(X)}
                     /\ messages[Val(WaitResult)].correlation_id = {X}]_vars

\* C14 witness: wait_for_response has dropped the first message, which did
\* not match, and returned the second, which carries the correlation id,
\* while a later message with the same correlation id is still queued.
C14_Witness ==
    /\ Len(delivered) = 2
    /\ delivered[1].op = "wait_for_response" /\ ~delivered[1].returned
    /\ delivered[2].op = "wait_for_response" /\ delivered[2].returned
    /\ messages[delivered[1].item].correlation_id # {1}
    /\ messages[delivered[2].item].correlation_id = {1}
    /\ Waiting(1) # {}
    /\ ~Busy("c1")

\* C15: a message that wait_for_response took from the queue and did not
\* return is not in the queue, is taken by no other receive_message or
\* wait_for_response turn, and is still in the traffic log.
C15_DiscardedNotRequeued ==
    \A i \in 1..Len(delivered) :
        ~delivered[i].returned =>
            /\ \A k \in 1..Len(message_queue) :
                 message_queue[k] # delivered[i].item
            /\ \A j \in 1..Len(delivered) :
                 j # i => delivered[j].item # delivered[i].item
            /\ \E k \in 1..Len(message_log) :
                 message_log[k] = delivered[i].item

\* C15 witness: wait_for_response dropped the first message; afterwards
\* receive_message calls have emptied the queue and returned the later
\* messages.
C15_Witness ==
    /\ Len(delivered) = 3
    /\ delivered[1].op = "wait_for_response" /\ ~delivered[1].returned
    /\ delivered[2].op = "receive_message"
    /\ delivered[3].op = "receive_message"
    /\ message_queue = <<>>
    /\ Len(message_log) = 3

\* C16: a receive_message call that was given a timeout is not still
\* waiting on an empty queue after that timeout has elapsed (it has returned
\* None), for every timeout value, 0 included; and a message receive_message
\* returned was the oldest undelivered one.
C16_ReceiveReturnsAtTimeout ==
    /\ \A c \in OneTask :
         (/\ Suspended(c)
          /\ tasks[c].op = "receive_message"
          /\ tasks[c].timeout # {}
          /\ message_queue = <<>>)
         => loop_time <= tasks[c].called + Val(tasks[c].timeout)
    /\ \A i \in 1..Len(delivered) :
         delivered[i].op = "receive_message"
         => delivered[i].item = message_log[i]

\* the log entries that match the sender and receiver filters, in log order
Matching(sender, receiver) ==
    LET Keep(item) ==
            /\ sender # {} => messages[item].sender = Val(sender)
            /\ receiver # {} => messages[item].receiver = Val(receiver)
    IN  SelectSeq(message_log, Keep)

Limits == 0..MaxMsgs

\* C25: for every sender and receiver filter and every limit, 0 included,
\* get_message_log returns at most limit messages, and they are the last
\* ones of the matching log entries, in log order.
C25_LogViewBounded ==
    \A sender \in Opt(Agents), receiver \in Opt(Agents), limit \in Limits :
        LET view  == get_message_log(sender, receiver, limit)
            match == Matching(sender, receiver)
            n     == IF limit < Len(match) THEN limit ELSE Len(match)
        IN  /\ Len(view) <= limit
            /\ view = SubSeq(match, Len(match) - n + 1, Len(match))

\* SpecBusLive: SpecBus with the scheduling the event loop gives: its clock
\* advances, a timer that is due fires, and a task that can run is run.
FairBus ==
    /\ WF_vars(Tick)
    /\ \A c \in OneTask :
         /\ WF_vars(WaitCheck(c))
         /\ WF_vars(WaitGet(c))
         /\ WF_vars(WaitTimeout(c))

SpecBusLive == Init /\ [][NextBus]_vars /\ FairBus

\* C17: every wait_for_response call returns, whether or not a matching
\* message is ever sent and whatever other messages arrive meanwhile; it
\* returns a message with the correlation id asked for, or None after more
\* than timeout has elapsed.
C17_WaitTerminates ==
    /\ \A c \in OneTask :
         (tasks[c].op = "wait_for_response") ~> (tasks[c].op = "none")
    /\ [][\A c \in OneTask :
            WaitReturns(c) =>
                IF WaitResult = {}
                THEN loop_time - tasks[c].start_time > tasks[c].timeout
                ELSE messages[Val(WaitResult)].correlation_id
                        = {tasks[c].correlation_id}]_vars

\* C17 witness: a wait_for_response call has ended without returning a
\* message, after time has passed and after it took and dropped two
\* messages with other correlation ids.
C17_Witness ==
    /\ ~Busy("c1")
    /\ loop_time >= 1
    /\ Len(delivered) = 2
    /\ \A i \in 1..2 : /\ delivered[i].op = "wait_for_response"
                       /\ ~delivered[i].returned

----------------------------------------------------------------------------
(* SpecBusConc: two consumer tasks on one bus, each in receive_message,     *)
(* wait_for_response or process_messages; both can be suspended in          *)
(* message_queue.get() at the same time.                                    *)

NextBusConc ==
    \/ \E message \in Replies(Len(messages) + 1) :
          Len(messages) < MaxMsgs /\ Send(message)
    \/ \E c \in Tasks, timeout \in Opt({PollTimeout}) : ReceiveCall(c, timeout)
    \/ \E c \in Tasks : ReceiveGet(c)
    \/ \E c \in Tasks : ReceiveTimeout(c)
    \/ \E c \in Tasks, correlation_id \in CorrelationIds :
          WaitCall(c, correlation_id, PollTimeout)
    \/ \E c \in Tasks : WaitCheck(c)
    \/ \E c \in Tasks : WaitGet(c)
    \/ \E c \in Tasks : WaitTimeout(c)
    \/ \E c \in Tasks : ProcessCall(c)
    \/ \E c \in Tasks : ProcessGet(c)
    \/ Tick

SpecBusConc == Init /\ [][NextBusConc]_vars

\* C24 (checked under SpecBusConc): message_log holds one entry for every
\* message sent, in the order of the sends (the k-th entry is the k-th
\* message), whatever receive_message, wait_for_response and
\* process_messages have taken from the queue since.
C24_LogAppendOnly ==
    /\ Len(message_log) = Len(messages)
    /\ \A k \in 1..Len(message_log) : message_log[k] = k
    /\ Len(message_log) = Len(delivered) + Len(message_queue)

\* C24 witness: three messages were sent; wait_for_response has dropped one
\* and process_messages has taken another, and the log still lists the
\* three.
C24_Witness ==
    /\ message_log = <<1, 2, 3>>
    /\ \E i, j \in 1..Len(delivered) :
         /\ delivered[i].op = "wait_for_response" /\ ~delivered[i].returned
         /\ delivered[j].op = "process_messages"
    /\ Len(message_queue) = 1

\* C12: no message is taken from the queue by two consumer calls, and a
\* message that was taken is not in the queue again.
C12_DeliveredAtMostOnce ==
    /\ \A i, j \in 1..Len(delivered) :
         delivered[i].item = delivered[j].item => i = j
    /\ \A i \in 1..Len(delivered), k \in 1..Len(message_queue) :
         message_queue[k] # delivered[i].item

\* C12 witness: while one task is suspended in process_messages and the
\* other in wait_for_response, each of the two has taken a message.
C12_Witness ==
    /\ Suspended("c1") /\ tasks["c1"].op = "wait_for_response"
    /\ Suspended("c2") /\ tasks["c2"].op = "process_messages"
    /\ \E i, j \in 1..Len(delivered) :
         /\ delivered[i].task = "c1" /\ delivered[i].op = "wait_for_response"
         /\ delivered[j].task = "c2" /\ delivered[j].op = "process_messages"

----------------------------------------------------------------------------
(* SpecStats: messages of every MessageType are sent, as many as there are  *)
(* types, and a consumer receives some of them.                             *)

\* one message of the given type, from the agent that sends that type
Typed(message_id, message_type) ==
    IF message_type \in {"research_request", "validation_request"}
    THEN A2AMessage(message_id, "agent_a", "agent_b", message_type,
                    "normal", {})
    ELSE A2AMessage(message_id, "agent_b", "agent_a", message_type,
                    "normal", {})

NextStats ==
    \/ \E message_type \in MessageTypes :
          /\ Len(messages) < Cardinality(MessageTypes)
          /\ Send(Typed(Len(messages) + 1, message_type))
    \/ \E c \in OneTask : ReceiveCall(c, {})
    \/ \E c \in OneTask : ReceiveGet(c)

SpecStats == Init /\ [][NextStats]_vars

RECURSIVE SumOf(_)
SumOf(by) ==
    IF DOMAIN by = {}
    THEN 0
    ELSE LET k == CHOOSE x \in DOMAIN by : TRUE
         IN  by[k] + SumOf(Del(by, k))

\* every MessageType has been sent exactly once
OneOfEachType ==
    /\ Len(messages) = Cardinality(MessageTypes)
    /\ \A t \in MessageTypes :
         \E i \in 1..Len(messages) : messages[i].message_type = t

\* C18: total_messages is the number of messages sent, delivered or still
\* queued; by_type, by_sender and by_receiver each add up to it; and after
\* one message of each of the six types by_type has six entries equal to 1.
C18_StatisticsOverFullLog ==
    LET stats == get_statistics
    IN  /\ stats.total_messages = Len(delivered) + Len(message_queue)
        /\ SumOf(stats.by_type) = stats.total_messages
        /\ SumOf(stats.by_sender) = stats.total_messages
        /\ SumOf(stats.by_receiver) = stats.total_messages
        /\ OneOfEachType =>
             /\ DOMAIN stats.by_type = MessageTypes
             /\ Cardinality(MessageTypes) = 6
             /\ \A t \in MessageTypes : stats.by_type[t] = 1

\* C18 witness: one message of each type was sent, two of them have been
\* received, and the statistics count six.
C18_Witness ==
    /\ OneOfEachType
    /\ Len(delivered) = 2
    /\ get_statistics.total_messages = 6
    /\ get_statistics.by_sender["agent_a"] = 2

----------------------------------------------------------------------------
(* SpecSend: send_message taken statement by statement (log, put, set the  *)
(* correlation id) by a sender task, beside one consumer task.  The tasks  *)
(* share one event loop: while a task runs, no other task takes a step; a  *)
(* task gives up the loop only where it awaits something that is not ready. *)

Sender == "c2"

\* asyncio.Queue() has maxsize 0: the queue is never full
full(queue) == FALSE

\* send_message giving up the loop after each of its statements
suspends_at_every_statement(step, queue) == TRUE

\* whether send_message gives up the loop before the statement named: its
\* only await is message_queue.put(), and put() waits only on a full queue
suspends_at(step, queue) == step = "put" /\ full(queue)

\* the sender is inside send_message and has not given up the loop
Holding ==
    /\ tasks[Sender].op = "send_message"
    /\ ~suspends_at(tasks[Sender].pc, message_queue)

\* send_message is called: self.message_log.append(message)
SendLog(message) ==
    /\ tasks[Sender] = NoTask
    /\ messages' = Append(messages, message)
    /\ message_log' = log_append(message_log, message.message_id)
    /\ tasks' = [tasks EXCEPT ![Sender] =
                  [op |-> "send_message", pc |-> "put",
                   item |-> message.message_id, message |-> message]]
    /\ UNCHANGED <<message_queue, loop_time, delivered, last, sessVars>>

\* await self.message_queue.put(message)
SendPut ==
    /\ tasks[Sender].op = "send_message"
    /\ tasks[Sender].pc = "put"
    /\ ~full(message_queue)
    /\ message_queue' = queue_put(messages, message_queue, tasks[Sender].item)
    /\ tasks' = [tasks EXCEPT ![Sender].pc = "correlate"]
    /\ UNCHANGED <<messages, message_log, loop_time, delivered, last,
                   sessVars>>

\* the correlation id is set on the message object and send_message returns
SendCorrelate ==
    /\ tasks[Sender].op = "send_message"
    /\ tasks[Sender].pc = "correlate"
    /\ messages' = [messages EXCEPT ![tasks[Sender].item] = correlate(@)]
    /\ tasks' = [tasks EXCEPT ![Sender] = NoTask]
    /\ last' = [op |-> "send_message", ret |-> tasks[Sender].item,
                message |-> tasks[Sender].message]
    /\ UNCHANGED <<message_queue, message_log, loop_time, delivered,
                   sessVars>>

NextSend ==
    \/ \E message \in Outgoing(Len(messages) + 1) :
          Len(messages) < MaxMsgs /\ SendLog(message)
    \/ SendPut
    \/ SendCorrelate
    \/ \E c \in OneTask : ~Holding /\ ReceiveCall(c, {})
    \/ \E c \in OneTask : ~Holding /\ ReceiveGet(c)
    \/ \E c \in OneTask : ~Holding /\ ProcessCall(c)
    \/ \E c \in OneTask : ~Holding /\ ProcessGet(c)

SpecSend == Init /\ [][NextSend]_vars

RequestTypes == {"research_request", "validation_request"}

\* C29: a research_request or validation_request that a consumer has taken
\* from the queue carries a correlation id, and one that is in the queue
\* without a correlation id is the message of a send_message that still
\* holds the event loop, so that no consumer can take a step and see it.
C29_RequestsCorrelatedWhenObservable ==
    \A id \in 1..Len(messages) :
        (/\ messages[id].message_type \in RequestTypes
         /\ messages[id].correlation_id = {})
        => /\ \A i \in 1..Len(delivered) : delivered[i].item # id
           /\ (\E i \in 1..Len(message_queue) : message_queue[i] = id)
                => (Holding /\ tasks[Sender].item = id)

\* C29 witness: a research_request sent without a correlation id was taken
\* by the consumer with its own id as correlation id, while the next
\* request is in the queue, its send_message not yet returned.
C29_Witness ==
    /\ \E i \in 1..Len(delivered) :
           /\ messages[delivered[i].item].message_type = "research_request"
           /\ messages[delivered[i].item].correlation_id
                  = {delivered[i].item}
    /\ tasks[Sender].op = "send_message"
    /\ tasks[Sender].pc = "correlate"
    /\ tasks[Sender].message.message_type = "research_request"
    /\ messages[tasks[Sender].item].correlation_id = {}
    /\ message_queue = <<tasks[Sender].item>>

====
